---- MODULE Spec2Model ----
(***************************************************************************)
(* Device arbitration in teleop_lerobot.                                   *)
(*                                                                         *)
(* TeleoperationManager (teleoperation_manager.py) owns the leader and the *)
(* follower while its control loop thread runs; the web layer              *)
(* (webserver.py) stops it, lets the Blockly RobotAPI (blockly_manager.py) *)
(* open the follower for one script, and starts it again.                  *)
(*                                                                         *)
(* Threads: the asyncio event loop thread runs the HTTP handlers, which    *)
(* interleave only at their await points; every control loop is a thread   *)
(* of its own and interleaves with everything.                             *)
(*                                                                         *)
(* Devices are collaborators (LeRobot).  connect() either opens the port   *)
(* or raises; a serial port is not exclusive, so a connect may succeed     *)
(* while another handle is open.  disconnect() closes the handle.  A read  *)
(* or send on an open handle either works or raises; on a closed handle it *)
(* raises.  The default action processors of LeRobot pass the action       *)
(* through.                                                                *)
(*                                                                         *)
(* Beside the arbitration the module holds three objects on their own:     *)
(* one CameraStream (camera_manager.py) with its capture threads,          *)
(* BlocklyManager.execute_python_code run on one script after another, and *)
(* the RobotAPI called directly.  They share no state with one another, so *)
(* each has a specification of its own (SpecCam, SpecScript, SpecAPI).     *)
(*                                                                         *)
(* Where a method takes and gives back a lock between its device calls is  *)
(* followed in a layer of its own (SpecLock): there every method is the    *)
(* sequence of its device calls, lock operations and memory operations,    *)
(* and a thread executes it one operation at a time.                       *)
(***************************************************************************)
EXTENDS Integers, Sequences, FiniteSets, TLC

\* ---------------------------------------------------------------- bounds
NumExec == 2          \* concurrent /api/blockly/execute requests
MaxThreads == 2       \* control loop threads that can exist at once
MaxOrphans == 2       \* follower connections counted after their handle is dropped
MaxScriptLen == 3     \* longest script, in ticks of wall-clock time
ScriptTimeout == 2    \* the timeout every request asks for, in the same ticks
MaxStops == 2         \* consecutive stop() calls that are told apart
MaxCamThreads == 2    \* capture threads of one CameraStream that can exist at once
ErrCap == 12          \* error_count is followed up to this value
MaxStmts == 3         \* statements in a script handed to execute_python_code
MaxFrameCount == 2    \* frame_count is followed up to this value
MaxConfigs == 2       \* entries in the camera_config of a CameraManager
MaxStreams == 4       \* CameraStream objects one CameraManager makes

Vals == {1, 2}        \* target positions a caller may inject
Tids == 1..MaxThreads
Execs == 1..NumExec
API == NumExec + 1    \* a start/stop call occupies the calling thread
NONE == NumExec + 2   \* nobody occupies the calling thread

None == [none |-> TRUE]

VARIABLES
    \* TeleoperationManager
    is_running, robot, teleop, thread, current_observation, current_action,
    thr,              \* control loop threads: position in _teleop_loop and locals
    orphans,          \* open follower connections the manager no longer references
    busy, joining,    \* who runs on the calling thread; inside stop()'s join
    applied, pubsSince, \* last action apply_leader_positions cached; loop publishes since
    \* webserver state and RobotAPI
    teleop_manager, teleop_mode, api_robot,
    epc, was_teleop_running, attempt, retry_delay, waits, result,
    elapsed, ran, restarted,
    \* what a direct caller of the manager saw: stop() calls in a row, and the
    \* disconnects the last stop() made
    tm_stops, stop_log,
    tm_last,          \* the last call made on the manager directly and what it returned
    \* CameraStream
    cam_is_running, capture, cam_thread, current_frame, error_count,
    cthr,             \* capture threads: position in _capture_loop
    cam_joining,      \* the caller is inside stop()'s join
    cam_stops,        \* stop() calls in a row
    last_good,        \* the frame of the most recent successful read
    frame_count,      \* followed up to MaxFrameCount
    fails_in_row,     \* failed reads since the last successful read or start()
    \* BlocklyManager.execute_python_code
    host_pc, code, ip, sys_stdout, captured_output, host_result,
    exec_calls,       \* times exec() was entered for the current call
    reached,          \* modules the script got hold of
    original_stdout,  \* text of the current call that reached the stdout of before
    \* RobotAPI called directly
    positions, open_failed, api_last,
    \* the two locks: who holds each, and where every thread is in its method
    lock_owner, lpos,
    \* one generate_mjpeg_stream generator: where it is, and what its last pass
    \* through the loop yielded
    gen_pc, gen_yield,
    \* one CameraManager: its configuration, its registry (name -> stream, 0 for
    \* no entry), the CameraStream objects it has made, how many, what
    \* initialize() returned last, and the last call made on it
    camera_config, cameras, streams, made, init_ret, mgr_last,
    \* BlocklyManager's stores: the two dicts, the two files, and the last call
    \* on them with what it returned
    saved_positions, saved_programs, positions_file, programs_file, store_last

tmvars == <<is_running, robot, teleop, thread, current_observation, current_action,
            thr, orphans, applied, pubsSince>>
callvars == <<busy, joining>>
webvars == <<teleop_manager, teleop_mode, api_robot>>
reqvars == <<epc, was_teleop_running, attempt, retry_delay, waits, result,
             elapsed, ran, restarted>>
obsvars == <<tm_stops, stop_log, tm_last>>
camvars == <<cam_is_running, capture, cam_thread, current_frame, error_count,
             cthr, cam_joining, cam_stops, last_good, fails_in_row,
             frame_count>>
hostvars == <<host_pc, code, ip, sys_stdout, captured_output, host_result,
              exec_calls, reached, original_stdout>>
apivars == <<positions, open_failed, api_last>>
lockvars == <<lock_owner, lpos>>
genvars == <<gen_pc, gen_yield>>
mgrvars == <<camera_config, cameras, streams, made, init_ret, mgr_last>>
storevars == <<saved_positions, saved_programs, positions_file, programs_file,
               store_last>>
vars == <<tmvars, callvars, webvars, reqvars, obsvars, camvars, hostvars, apivars,
          lockvars, genvars, mgrvars, storevars>>

\* the objects a call on the manager, or a handler of the web layer, does not touch
beside_manager == <<camvars, hostvars, apivars, lockvars, genvars, mgrvars,
        storevars>>
beside_web == <<obsvars, camvars, hostvars, apivars, lockvars, genvars, mgrvars,
        storevars>>

\* ------------------------------------------------- actions and observations
\* An action or observation is a mapping from key to value.
Obs(v) == [k \in {"j.pos"} |-> v]

\* robot_action_processor((teleop_action, obs)) of make_default_processors
robot_action_processor(action, obs) == action

\* teleop_action_processor((raw_action, obs))
teleop_action_processor(raw, obs) == raw

StripPos(k) == IF k = "j.pos" THEN "j" ELSE k
WithPos(k) == IF k = "j" THEN "j.pos" ELSE k

\* positions an external caller may pass to apply_leader_positions
Positions == UNION {[{k} -> Vals] : k \in {"j", "j.pos"}}

\* apply_leader_positions, lines 291-296: every key under its base name and
\* under base + '.pos'
BuildAction(p) ==
    LET k0 == CHOOSE k \in DOMAIN p : TRUE
        base == StripPos(k0)
    IN [k \in {base, WithPos(base)} |-> p[k0]]

\* what get_observation of the follower and get_action of the leader return
FollowerObs == Obs(3)
LeaderAction == Obs(1)

IdleThread == [pc |-> "none", obs |-> None, act |-> None]
Alive(t) == thr[t].pc \in {"check", "leader", "send", "publish"}
FreeTids == {t \in Tids : ~Alive(t)}

\* follower connections opened by the manager and still open
OpenCount == (IF robot = "open" THEN 1 ELSE 0) + orphans
Drop(h) == IF h = "open" /\ orphans < MaxOrphans THEN orphans + 1 ELSE orphans

\* -------------------------------------------------- TeleoperationManager
StartOutcomes == {"ok", "config", "teleop_connect", "robot_connect"}

\* start() without its guard on is_running
start_unguarded(o) ==
    IF FALSE THEN UNCHANGED tmvars
    ELSE CASE o = "config" ->          \* draccus.parse / make_robot_from_config raises
              UNCHANGED tmvars          \* except: self.stop() returns at once
         [] o = "teleop_connect" ->
              /\ robot' = "closed"
              /\ teleop' = "closed"
              /\ orphans' = Drop(robot)
              /\ UNCHANGED <<is_running, thread, current_observation, current_action,
                             thr, applied, pubsSince>>
         [] o = "robot_connect" ->
              /\ robot' = "closed"
              /\ teleop' = "open"
              /\ orphans' = Drop(robot)
              /\ UNCHANGED <<is_running, thread, current_observation, current_action,
                             thr, applied, pubsSince>>
         [] OTHER ->
              /\ FreeTids # {}
              /\ LET t == CHOOSE u \in FreeTids : \A w \in FreeTids : u <= w
                 IN /\ thread' = t
                    /\ thr' = [thr EXCEPT ![t] = [pc |-> "check", obs |-> None, act |-> None]]
              /\ robot' = "open"
              /\ teleop' = "open"
              /\ orphans' = Drop(robot)
              /\ is_running' = TRUE
              /\ UNCHANGED <<current_observation, current_action, applied, pubsSince>>

\* start(): the effect on the manager; o says where the call raises, if at all
start(o) ==
    IF is_running THEN UNCHANGED tmvars
    ELSE CASE o = "config" ->          \* draccus.parse / make_robot_from_config raises
              UNCHANGED tmvars          \* except: self.stop() returns at once
         [] o = "teleop_connect" ->
              /\ robot' = "closed"
              /\ teleop' = "closed"
              /\ orphans' = Drop(robot)
              /\ UNCHANGED <<is_running, thread, current_observation, current_action,
                             thr, applied, pubsSince>>
         [] o = "robot_connect" ->
              /\ robot' = "closed"
              /\ teleop' = "open"
              /\ orphans' = Drop(robot)
              /\ UNCHANGED <<is_running, thread, current_observation, current_action,
                             thr, applied, pubsSince>>
         [] OTHER ->
              /\ FreeTids # {}
              /\ LET t == CHOOSE u \in FreeTids : \A w \in FreeTids : u <= w
                 IN /\ thread' = t
                    /\ thr' = [thr EXCEPT ![t] = [pc |-> "check", obs |-> None, act |-> None]]
              /\ robot' = "open"
              /\ teleop' = "open"
              /\ orphans' = Drop(robot)
              /\ is_running' = TRUE
              /\ UNCHANGED <<current_observation, current_action, applied, pubsSince>>

StartReturns(o) == ~is_running /\ o = "ok"

\* stop(), lines 187-191: the flag
stop_signal ==
    /\ is_running' = FALSE
    /\ UNCHANGED <<robot, teleop, thread, current_observation, current_action,
                   thr, orphans, applied, pubsSince>>

\* stop(), lines 194-195: join returns when the thread has exited or after 2 s
JoinReturns(timeout) == thread = 0 \/ ~Alive(thread) \/ timeout

\* stop(), lines 197-214: disconnect both, clear
stop_release ==
    /\ teleop' = "None"
    /\ robot' = "None"
    /\ current_observation' = None
    /\ current_action' = None
    /\ applied' = None
    /\ pubsSince' = 0
    /\ UNCHANGED <<is_running, thread, thr, orphans>>

\* stop(), lines 197-208: the disconnects one stop() call makes and how each
\* ends.  Each has a try of its own, so neither exception leaves stop(): the
\* call goes on to clear the handles whatever tok and rok are.
NoDisconnects == [teleop |-> "skipped", robot |-> "skipped"]

\* one try around both disconnects
disconnect_log_oneTry(tok, rok) ==
    [teleop |-> IF teleop = "None" THEN "skipped" ELSE IF tok THEN "ok" ELSE "raised",
     robot |-> IF robot = "None" \/ (teleop # "None" /\ ~tok) THEN "skipped"
               ELSE IF rok THEN "ok" ELSE "raised"]

disconnect_log(tok, rok) ==
    [teleop |-> IF teleop = "None" THEN "skipped" ELSE IF tok THEN "ok" ELSE "raised",
     robot |-> IF robot = "None" THEN "skipped" ELSE IF rok THEN "ok" ELSE "raised"]

\* one step of a control loop thread
Die(t) == thr' = [thr EXCEPT ![t] = IdleThread]

\* a loop whose while test does not read the flag
LoopCheck_ignoresFlag(t, ok) ==
    /\ thr[t].pc = "check"
    /\ IF robot = "open" /\ ok
       THEN thr' = [thr EXCEPT ![t].pc = "leader", ![t].obs = FollowerObs]
       ELSE Die(t)
    /\ UNCHANGED <<is_running, robot, teleop, thread, current_observation, current_action,
                   orphans, applied, pubsSince>>

LoopCheck(t, ok) ==
    /\ thr[t].pc = "check"
    /\ IF is_running /\ robot = "open" /\ ok
       THEN thr' = [thr EXCEPT ![t].pc = "leader", ![t].obs = FollowerObs]
       ELSE Die(t)
    /\ UNCHANGED <<is_running, robot, teleop, thread, current_observation, current_action,
                   orphans, applied, pubsSince>>

LoopLeader(t, ok) ==
    /\ thr[t].pc = "leader"
    /\ IF teleop = "open" /\ ok
       THEN thr' = [thr EXCEPT ![t].pc = "send",
                               ![t].act = robot_action_processor(
                                             teleop_action_processor(LeaderAction, thr[t].obs),
                                             thr[t].obs)]
       ELSE Die(t)
    /\ UNCHANGED <<is_running, robot, teleop, thread, current_observation, current_action,
                   orphans, applied, pubsSince>>

\* a loop that logs a failed send and goes on with the next cycle
LoopSend_continues(t, ok) ==
    /\ thr[t].pc = "send"
    /\ IF robot = "open" /\ ok
       THEN thr' = [thr EXCEPT ![t].pc = "publish"]
       ELSE thr' = [thr EXCEPT ![t] = [pc |-> "check", obs |-> None, act |-> None]]
    /\ UNCHANGED <<is_running, robot, teleop, thread, current_observation, current_action,
                   orphans, applied, pubsSince>>

LoopSend(t, ok) ==
    /\ thr[t].pc = "send"
    /\ IF robot = "open" /\ ok
       THEN thr' = [thr EXCEPT ![t].pc = "publish"]
       ELSE Die(t)
    /\ UNCHANGED <<is_running, robot, teleop, thread, current_observation, current_action,
                   orphans, applied, pubsSince>>

LoopPublish(t) ==
    /\ thr[t].pc = "publish"
    /\ current_observation' = thr[t].obs
    /\ current_action' = thr[t].act
    /\ thr' = [thr EXCEPT ![t] = [pc |-> "check", obs |-> None, act |-> None]]
    /\ pubsSince' = IF applied # None /\ pubsSince < 2 THEN pubsSince + 1 ELSE pubsSince
    /\ UNCHANGED <<is_running, robot, teleop, thread, orphans, applied>>

\* a cycle has read its observation and not yet sent its action
MidCycle(t) == thr[t].pc \in {"leader", "send"}

get_current_action == current_action

\* what apply_leader_positions returns
ApplyReturns(ok) == is_running /\ robot = "open" /\ ok

\* apply_leader_positions(p); ok: send_action does not raise
apply_leader_positions(p, ok) ==
    IF ~is_running \/ robot = "None" THEN UNCHANGED tmvars
    ELSE LET processed == robot_action_processor(BuildAction(p), current_observation)
         IN IF robot = "open" /\ ok
            THEN /\ current_action' = processed
                 /\ applied' = processed
                 /\ pubsSince' = 0
                 /\ UNCHANGED <<is_running, robot, teleop, thread, current_observation,
                                thr, orphans>>
            ELSE UNCHANGED tmvars

\* ------------------------------------------------------------ direct calls
TMStart ==
    /\ busy = NONE
    /\ \E o \in StartOutcomes :
          /\ start(o)
          /\ tm_last' = [call |-> "start", ret |-> StartReturns(o)]
    /\ tm_stops' = 0
    /\ stop_log' = NoDisconnects
    /\ UNCHANGED <<callvars, webvars, reqvars, beside_manager>>

TMStopBegin ==
    /\ busy = NONE
    /\ is_running
    /\ stop_signal
    /\ busy' = API
    /\ joining' = TRUE
    /\ UNCHANGED <<webvars, reqvars, obsvars, beside_manager>>

TMStopEnd ==
    /\ busy = API
    /\ joining
    /\ \E timeout \in BOOLEAN : JoinReturns(timeout)
    /\ stop_release
    /\ \E tok \in BOOLEAN, rok \in BOOLEAN : stop_log' = disconnect_log(tok, rok)
    /\ tm_stops' = IF tm_stops < MaxStops THEN tm_stops + 1 ELSE tm_stops
    /\ tm_last' = [call |-> "stop", ret |-> FALSE]
    /\ busy' = NONE
    /\ joining' = FALSE
    /\ UNCHANGED <<webvars, reqvars, beside_manager>>

\* stop() on a manager that is not running: line 187-188, the call returns at once
TMStopIdle ==
    /\ busy = NONE
    /\ ~is_running
    /\ tm_stops < MaxStops
    /\ tm_stops' = tm_stops + 1
    /\ stop_log' = NoDisconnects
    /\ tm_last' = [call |-> "stop", ret |-> FALSE]
    /\ UNCHANGED <<tmvars, callvars, webvars, reqvars, beside_manager>>

TMApply ==
    /\ busy = NONE
    /\ \E p \in Positions, ok \in BOOLEAN :
          /\ apply_leader_positions(p, ok)
          /\ tm_last' = [call |-> "apply_leader_positions", ret |-> ApplyReturns(ok)]
    /\ tm_stops' = 0
    /\ UNCHANGED <<callvars, webvars, reqvars, stop_log, beside_manager>>

\* _teleop_loop in thread t
LoopThread(t) ==
    /\ \/ \E ok \in BOOLEAN : LoopCheck(t, ok)
       \/ \E ok \in BOOLEAN : LoopLeader(t, ok)
       \/ \E ok \in BOOLEAN : LoopSend(t, ok)
       \/ LoopPublish(t)
    /\ UNCHANGED <<callvars, webvars, reqvars, beside_web>>

LoopStep == \E t \in Tids : LoopThread(t)

\* ------------------------------------------------------------- RobotAPI
\* _initialize_robot(); ok: the connect succeeds.  A failure at any step ends in
\* the except branch, which sets robot to None.
initialize_robot(ok) == api_robot' = IF ok THEN "open" ELSE "None"

\* disconnect(): closes the handle and keeps the reference
api_disconnect == api_robot' = IF api_robot = "None" THEN "None" ELSE "closed"

\* ------------------------------------------------------------ webserver
max_retries == 3

\* RobotState.is_running
state_is_running == teleop_manager /\ is_running

\* start_teleoperation() that records the mode before it knows start()'s answer
start_teleoperation_modeFirst(o) ==
    IF state_is_running THEN UNCHANGED <<tmvars, webvars>>
    ELSE /\ start(o)
         /\ teleop_mode' = "teleoperation"
         /\ IF StartReturns(o)
            THEN teleop_manager' = TRUE
            ELSE UNCHANGED teleop_manager
         /\ UNCHANGED api_robot

\* start_teleoperation()
start_teleoperation(o) ==
    IF state_is_running THEN UNCHANGED <<tmvars, webvars>>
    ELSE /\ start(o)
         /\ IF StartReturns(o)
            THEN /\ teleop_manager' = TRUE
                 /\ teleop_mode' = "teleoperation"
            ELSE UNCHANGED <<teleop_manager, teleop_mode>>
         /\ UNCHANGED api_robot

\* stop_teleoperation(), lines 262-265 and 269-271 up to the join inside stop()
stop_teleoperation_begin(who) ==
    IF ~state_is_running
    THEN /\ teleop_mode' = "stopped"
         /\ UNCHANGED <<tmvars, callvars, teleop_manager, api_robot>>
    ELSE /\ stop_signal
         /\ busy' = who
         /\ joining' = TRUE
         /\ UNCHANGED webvars

\* stop_teleoperation(), the rest of stop() and lines 272-276
stop_teleoperation_end ==
    /\ joining
    /\ \E timeout \in BOOLEAN : JoinReturns(timeout)
    /\ stop_release
    /\ teleop_manager' = FALSE
    /\ teleop_mode' = "stopped"
    /\ joining' = FALSE
    /\ busy' = NONE
    /\ UNCHANGED api_robot

\* POST /api/teleoperation/start (and the auto-start of lifespan)
ApiStart ==
    /\ busy = NONE
    /\ \E o \in StartOutcomes : start_teleoperation(o)
    /\ UNCHANGED <<callvars, reqvars, beside_web>>

\* POST /api/teleoperation/stop
ApiStopBegin ==
    /\ busy = NONE
    /\ stop_teleoperation_begin(API)
    /\ UNCHANGED <<reqvars, beside_web>>

ApiStopEnd ==
    /\ busy = API
    /\ stop_teleoperation_end
    /\ UNCHANGED <<reqvars, beside_web>>

\* POST /api/blockly/execute, lines 859-870.  Requests are alike: a new one takes
\* the lowest free slot.
ExecBegin(r) ==
    /\ busy = NONE
    /\ epc[r] = "idle"
    /\ \A q \in Execs : epc[q] = "idle" => r <= q
    /\ was_teleop_running' = [was_teleop_running EXCEPT ![r] = state_is_running]
    /\ restarted' = [restarted EXCEPT ![r] = FALSE]
    /\ ran' = [ran EXCEPT ![r] = FALSE]
    /\ UNCHANGED <<attempt, retry_delay, waits, result, elapsed, beside_web>>
    /\ IF state_is_running
       THEN /\ stop_teleoperation_begin(r)
            /\ epc' = [epc EXCEPT ![r] = "stopping"]
       ELSE /\ epc' = [epc EXCEPT ![r] = "init"]
            /\ busy' = r
            /\ UNCHANGED <<tmvars, webvars, joining>>

\* stop_teleoperation() returns; await asyncio.sleep(5.0)
ExecStopEnd(r) ==
    /\ busy = r
    /\ epc[r] = "stopping"
    /\ stop_teleoperation_end
    /\ epc' = [epc EXCEPT ![r] = "sleep5"]
    /\ UNCHANGED <<was_teleop_running, attempt, retry_delay, waits, result,
                   elapsed, ran, restarted, beside_web>>

\* the retry loop with an await between the connect and the script
ExecAttempt_yields(r, ok) ==
    /\ \/ busy = r /\ epc[r] = "init"
       \/ busy = NONE /\ epc[r] \in {"sleep5", "retry"}
    /\ initialize_robot(ok)
    /\ attempt' = [attempt EXCEPT ![r] = @ + 1]
    /\ IF ok
       THEN /\ epc' = [epc EXCEPT ![r] = "exec"]
            /\ busy' = NONE
            /\ UNCHANGED <<retry_delay, waits, result>>
       ELSE IF attempt[r] < max_retries - 1
       THEN /\ epc' = [epc EXCEPT ![r] = "retry"]
            /\ busy' = NONE
            /\ waits' = [waits EXCEPT ![r] = Append(@, retry_delay[r])]
            /\ retry_delay' = [retry_delay EXCEPT ![r] = @ + 1]
            /\ UNCHANGED result
       ELSE /\ epc' = [epc EXCEPT ![r] = "sleep3"]
            /\ busy' = NONE
            /\ result' = [result EXCEPT ![r] = "unavailable"]
            /\ UNCHANGED <<retry_delay, waits>>
    /\ UNCHANGED <<tmvars, joining, teleop_manager, teleop_mode,
                   was_teleop_running, elapsed, ran, restarted, beside_web>>

\* the retry loop with a constant delay
ExecAttempt_fixedDelay(r, ok) ==
    /\ \/ busy = r /\ epc[r] = "init"
       \/ busy = NONE /\ epc[r] \in {"sleep5", "retry"}
    /\ initialize_robot(ok)
    /\ attempt' = [attempt EXCEPT ![r] = @ + 1]
    /\ IF ok
       THEN /\ epc' = [epc EXCEPT ![r] = "exec"]
            /\ busy' = r
            /\ UNCHANGED <<retry_delay, waits, result>>
       ELSE IF attempt[r] < max_retries - 1
       THEN /\ epc' = [epc EXCEPT ![r] = "retry"]
            /\ busy' = NONE
            /\ waits' = [waits EXCEPT ![r] = Append(@, retry_delay[r])]
            /\ retry_delay' = [retry_delay EXCEPT ![r] = @]
            /\ UNCHANGED result
       ELSE /\ epc' = [epc EXCEPT ![r] = "sleep3"]
            /\ busy' = NONE
            /\ result' = [result EXCEPT ![r] = "unavailable"]
            /\ UNCHANGED <<retry_delay, waits>>
    /\ UNCHANGED <<tmvars, joining, teleop_manager, teleop_mode,
                   was_teleop_running, elapsed, ran, restarted, beside_web>>

\* one pass of the retry loop, lines 879-895; after the last failed pass the
\* HTTPException and, in the finally, a disconnect that finds no robot
ExecAttempt(r, ok) ==
    /\ \/ busy = r /\ epc[r] = "init"
       \/ busy = NONE /\ epc[r] \in {"sleep5", "retry"}
    /\ initialize_robot(ok)
    /\ attempt' = [attempt EXCEPT ![r] = @ + 1]
    /\ IF ok
       THEN /\ epc' = [epc EXCEPT ![r] = "exec"]
            /\ busy' = r
            /\ UNCHANGED <<retry_delay, waits, result>>
       ELSE IF attempt[r] < max_retries - 1
       THEN /\ epc' = [epc EXCEPT ![r] = "retry"]
            /\ busy' = NONE
            /\ waits' = [waits EXCEPT ![r] = Append(@, retry_delay[r])]
            /\ retry_delay' = [retry_delay EXCEPT ![r] = @ + 1]
            /\ UNCHANGED result
       ELSE /\ epc' = [epc EXCEPT ![r] = "sleep3"]
            /\ busy' = NONE
            /\ result' = [result EXCEPT ![r] = "unavailable"]
            /\ UNCHANGED <<retry_delay, waits>>
    /\ UNCHANGED <<tmvars, joining, teleop_manager, teleop_mode,
                   was_teleop_running, elapsed, ran, restarted, beside_web>>

\* execute_python_code: exec(code) runs for one more tick.  The timeout argument
\* is not read anywhere in the function.
ExecScriptStep(r) ==
    /\ busy = r
    /\ epc[r] = "exec"
    /\ elapsed[r] < MaxScriptLen
    /\ elapsed' = [elapsed EXCEPT ![r] = @ + 1]
    /\ ran' = [ran EXCEPT ![r] = TRUE]
    /\ UNCHANGED <<tmvars, callvars, webvars, beside_web,
                   epc, was_teleop_running, attempt, retry_delay, waits, result, restarted>>

\* the script ends (it returns or raises); execute_python_code returns; finally:
\* disconnect; await asyncio.sleep(3.0)
ExecFinish(r, raises) ==
    /\ busy = r
    /\ epc[r] = "exec"
    /\ elapsed[r] >= 1
    /\ result' = [result EXCEPT ![r] = IF raises THEN "error" ELSE "ok"]
    /\ api_disconnect
    /\ epc' = [epc EXCEPT ![r] = "sleep3"]
    /\ busy' = NONE
    /\ elapsed' = [elapsed EXCEPT ![r] = 0]
    /\ attempt' = [attempt EXCEPT ![r] = 0]
    /\ retry_delay' = [retry_delay EXCEPT ![r] = 2]
    /\ waits' = [waits EXCEPT ![r] = <<>>]
    /\ UNCHANGED <<tmvars, joining, teleop_manager, teleop_mode,
                   was_teleop_running, ran, restarted, beside_web>>

\* the restart placed after the script instead of in the finally
ExecRestart_afterScript(r, o) ==
    /\ busy = NONE
    /\ epc[r] = "sleep3"
    /\ IF was_teleop_running[r] /\ result[r] # "unavailable"
       THEN /\ start_teleoperation(o)
            /\ restarted' = [restarted EXCEPT ![r] = TRUE]
       ELSE UNCHANGED <<tmvars, webvars, restarted>>
    /\ epc' = [epc EXCEPT ![r] = "idle"]
    /\ result' = [result EXCEPT ![r] = "none"]
    /\ attempt' = [attempt EXCEPT ![r] = 0]
    /\ retry_delay' = [retry_delay EXCEPT ![r] = 2]
    /\ waits' = [waits EXCEPT ![r] = <<>>]
    /\ UNCHANGED <<callvars, was_teleop_running, elapsed, ran, beside_web>>

\* the restart without the test of was_teleop_running
ExecRestart_always(r, o) ==
    /\ busy = NONE
    /\ epc[r] = "sleep3"
    /\ IF TRUE
       THEN /\ start_teleoperation(o)
            /\ restarted' = [restarted EXCEPT ![r] = TRUE]
       ELSE UNCHANGED <<tmvars, webvars, restarted>>
    /\ epc' = [epc EXCEPT ![r] = "idle"]
    /\ result' = [result EXCEPT ![r] = "none"]
    /\ attempt' = [attempt EXCEPT ![r] = 0]
    /\ retry_delay' = [retry_delay EXCEPT ![r] = 2]
    /\ waits' = [waits EXCEPT ![r] = <<>>]
    /\ UNCHANGED <<callvars, was_teleop_running, elapsed, ran, beside_web>>

\* lines 913-916; the response goes out
ExecRestart(r, o) ==
    /\ busy = NONE
    /\ epc[r] = "sleep3"
    /\ IF was_teleop_running[r]
       THEN /\ start_teleoperation(o)
            /\ restarted' = [restarted EXCEPT ![r] = TRUE]
       ELSE UNCHANGED <<tmvars, webvars, restarted>>
    /\ epc' = [epc EXCEPT ![r] = "idle"]
    /\ result' = [result EXCEPT ![r] = "none"]
    /\ attempt' = [attempt EXCEPT ![r] = 0]
    /\ retry_delay' = [retry_delay EXCEPT ![r] = 2]
    /\ waits' = [waits EXCEPT ![r] = <<>>]
    /\ UNCHANGED <<callvars, was_teleop_running, elapsed, ran, beside_web>>

Execute ==
    \E r \in Execs :
        \/ ExecBegin(r)
        \/ ExecStopEnd(r)
        \/ \E ok \in BOOLEAN : ExecAttempt(r, ok)
        \/ ExecScriptStep(r)
        \/ \E raises \in BOOLEAN : ExecFinish(r, raises)
        \/ \E o \in StartOutcomes : ExecRestart(r, o)

\* ---------------------------------------------------------- CameraStream
\* The capture device is a collaborator (cv2.VideoCapture): read() returns a
\* frame, or ret = False, or raises; on a released or unopened capture it
\* returns ret = False.  A frame is a number; 0 stands for None.
FailureThreshold == 10
Frames == {1, 2}
CamTids == 1..MaxCamThreads
CamAlive(t) == cthr[t] \in {"check", "read"}
FreeCamTids == {t \in CamTids : ~CamAlive(t)}

beside_camera == <<tmvars, callvars, webvars, reqvars, obsvars, hostvars, apivars,
                   lockvars, genvars, mgrvars,
        storevars>>

CamStartOutcomes == {"ok", "open_raises", "not_opened", "set_raises"}

\* start(); o says how far the call gets.  Neither current_frame nor
\* error_count is touched.
cam_start(o) ==
    CASE o = "open_raises" ->            \* cv2.VideoCapture(index) raises
             UNCHANGED <<cam_is_running, capture, cam_thread, current_frame,
                         error_count, cthr, last_good, fails_in_row, frame_count>>
      [] o = "not_opened" ->             \* isOpened() is False: return False
             /\ capture' = "unopened"
             /\ UNCHANGED <<cam_is_running, cam_thread, current_frame,
                            error_count, cthr, last_good, fails_in_row, frame_count>>
      [] o = "set_raises" ->             \* a capture.set / capture.get raises
             /\ capture' = "open"
             /\ UNCHANGED <<cam_is_running, cam_thread, current_frame,
                            error_count, cthr, last_good, fails_in_row, frame_count>>
      [] OTHER ->
             /\ FreeCamTids # {}
             /\ LET t == CHOOSE u \in FreeCamTids : \A w \in FreeCamTids : u <= w
                IN /\ cam_thread' = t
                   /\ cthr' = [cthr EXCEPT ![t] = "check"]
             /\ capture' = "open"
             /\ cam_is_running' = TRUE
             /\ fails_in_row' = 0
             /\ UNCHANGED <<current_frame, error_count, last_good, frame_count>>

\* stop(), line 70
cam_stop_signal ==
    /\ cam_is_running' = FALSE
    /\ UNCHANGED <<capture, cam_thread, current_frame, error_count, cthr,
                   last_good, fails_in_row, frame_count>>

\* stop(), lines 72-73: join returns when the thread has exited or after 2 s
CamJoinReturns(timeout) ==
    IF cam_thread = 0 THEN TRUE ELSE ~CamAlive(cam_thread) \/ timeout

\* stop() that also drops the frame
cam_stop_release_clearsFrame ==
    /\ capture' = "None"
    /\ current_frame' = 0
    /\ UNCHANGED <<cam_is_running, cam_thread, error_count, cthr,
                   last_good, fails_in_row, frame_count>>

\* stop() that releases only after the thread has exited
cam_stop_release_ifExited ==
    /\ capture' = IF cam_thread # 0 /\ CamAlive(cam_thread) THEN capture ELSE "None"
    /\ UNCHANGED <<cam_is_running, cam_thread, current_frame, error_count, cthr,
                   last_good, fails_in_row, frame_count>>

\* stop(), lines 75-77: release the capture if there is one
cam_stop_release ==
    /\ capture' = "None"
    /\ UNCHANGED <<cam_is_running, cam_thread, current_frame, error_count, cthr,
                   last_good, fails_in_row, frame_count>>

\* _capture_loop, line 83: the while test
CamCheck(t) ==
    /\ cthr[t] = "check"
    /\ cthr' = [cthr EXCEPT ![t] = IF cam_is_running THEN "read" ELSE "none"]
    /\ UNCHANGED <<cam_is_running, capture, cam_thread, current_frame, error_count,
                   last_good, fails_in_row, frame_count>>

\* a loop that counts every read, failed or not
CamRead_countsEveryRead(t, f) ==
    /\ cthr[t] = "read"
    /\ frame_count' = IF frame_count < MaxFrameCount THEN frame_count + 1
                       ELSE MaxFrameCount
    /\ IF capture = "open" /\ f # 0
       THEN /\ current_frame' = f
            /\ last_good' = f
            /\ error_count' = 0
            /\ fails_in_row' = 0
            /\ cthr' = [cthr EXCEPT ![t] = "check"]
            /\ UNCHANGED cam_is_running
       ELSE /\ error_count' = IF error_count < ErrCap THEN error_count + 1 ELSE ErrCap
            /\ fails_in_row' = IF fails_in_row < ErrCap THEN fails_in_row + 1 ELSE ErrCap
            /\ IF error_count + 1 > FailureThreshold
               THEN /\ cam_is_running' = FALSE
                    /\ cthr' = [cthr EXCEPT ![t] = "none"]
               ELSE /\ cthr' = [cthr EXCEPT ![t] = "check"]
                    /\ UNCHANGED cam_is_running
            /\ UNCHANGED <<current_frame, last_good>>
    /\ UNCHANGED <<capture, cam_thread>>

\* _capture_loop, lines 85-109: one read.  f is the frame the device yields, 0
\* when the read fails (ret False, or an exception: both count the error and
\* test it against the threshold).  error_count is followed up to ErrCap.
CamRead(t, f) ==
    /\ cthr[t] = "read"
    /\ IF capture = "open" /\ f # 0
       THEN /\ current_frame' = f
            /\ last_good' = f
            /\ frame_count' = IF frame_count < MaxFrameCount THEN frame_count + 1
                               ELSE MaxFrameCount
            /\ error_count' = 0
            /\ fails_in_row' = 0
            /\ cthr' = [cthr EXCEPT ![t] = "check"]
            /\ UNCHANGED cam_is_running
       ELSE /\ error_count' = IF error_count < ErrCap THEN error_count + 1 ELSE ErrCap
            /\ fails_in_row' = IF fails_in_row < ErrCap THEN fails_in_row + 1 ELSE ErrCap
            /\ IF error_count + 1 > FailureThreshold
               THEN /\ cam_is_running' = FALSE
                    /\ cthr' = [cthr EXCEPT ![t] = "none"]
               ELSE /\ cthr' = [cthr EXCEPT ![t] = "check"]
                    /\ UNCHANGED cam_is_running
            /\ UNCHANGED <<current_frame, last_good, frame_count>>
    /\ UNCHANGED <<capture, cam_thread>>

\* get_frame(): a copy of the frame
get_frame == current_frame

\* cv2.imencode of a frame; <<>> stands for None
Jpeg(f) == <<"jpeg", f>>
get_jpeg_frame == IF get_frame = 0 THEN <<>> ELSE Jpeg(get_frame)

CamStart ==
    /\ ~cam_joining
    /\ \E o \in CamStartOutcomes : cam_start(o)
    /\ cam_stops' = 0
    /\ UNCHANGED <<cam_joining, beside_camera>>

CamStopBegin ==
    /\ ~cam_joining
    /\ cam_stop_signal
    /\ cam_joining' = TRUE
    /\ UNCHANGED <<cam_stops, beside_camera>>

CamStopEnd ==
    /\ cam_joining
    /\ \E timeout \in BOOLEAN : CamJoinReturns(timeout)
    /\ cam_stop_release
    /\ cam_joining' = FALSE
    /\ cam_stops' = IF cam_stops < MaxStops THEN cam_stops + 1 ELSE cam_stops
    /\ UNCHANGED beside_camera

\* _capture_loop in thread t
CamLoop(t) ==
    /\ \/ CamCheck(t)
       \/ \E f \in Frames \cup {0} : CamRead(t, f)
    /\ UNCHANGED <<cam_joining, cam_stops, beside_camera>>

CamStep == \E t \in CamTids : CamLoop(t)

\* ------------------------------------ BlocklyManager.execute_python_code
\* A script is a sequence of statements: print a text, raise an Exception of
\* some kind, import a module, `import sys; sys.exit()`, and
\* `import sys; print(text, file=sys.__stdout__)`.  Text is a sequence of
\* printed items.
Builtins == {"__import__", "print", "range", "len", "enumerate", "str", "int",
             "float", "list", "dict", "abs", "min", "max", "round"}
Texts == {"a", "b"}
ErrorKinds == {"ValueError", "KeyError"}
Modules == {"os"}
Stmts == [op : {"print"}, arg : Texts] \cup [op : {"raise"}, arg : ErrorKinds]
            \cup [op : {"import"}, arg : Modules]
            \cup [op : {"exit"}, arg : {"SystemExit"}]
            \cup [op : {"write"}, arg : Texts]
Scripts == UNION {[1..n -> Stmts] : n \in 0..MaxStmts}
Placeholder == <<"Execution completed successfully">>

beside_host == <<tmvars, callvars, webvars, reqvars, obsvars, camvars, apivars,
                 lockvars, genvars, mgrvars,
        storevars>>

\* lines 398-431: stdout is redirected to a fresh buffer and exec(code) begins
execute_enter(c) ==
    /\ code' = c
    /\ ip' = 1
    /\ sys_stdout' = "buffer"
    /\ captured_output' = <<>>
    /\ host_result' = None
    /\ exec_calls' = 1
    /\ reached' = {}
    /\ original_stdout' = <<>>
    /\ host_pc' = "exec"

\* the except branch without the captured text
exec_fail_dropsOutput(kind) ==
    /\ host_result' = [success |-> FALSE, error_type |-> kind, output |-> <<>>]
    /\ sys_stdout' = "original"
    /\ host_pc' = "idle"
    /\ UNCHANGED <<code, ip, captured_output, exec_calls, reached, original_stdout>>

\* lines 442-452: except Exception, then the finally
exec_fail(kind) ==
    /\ host_result' = [success |-> FALSE, error_type |-> kind, output |-> captured_output]
    /\ sys_stdout' = "original"
    /\ host_pc' = "idle"
    /\ UNCHANGED <<code, ip, captured_output, exec_calls, reached, original_stdout>>

\* lines 442 and 454 catch Exception only: a raise of another BaseException
\* runs the finally and leaves execute_python_code; nothing is returned
exec_escape(kind) ==
    /\ host_result' = None
    /\ sys_stdout' = "original"
    /\ host_pc' = "raised"
    /\ reached' = reached \cup {"sys"}
    /\ UNCHANGED <<code, ip, captured_output, exec_calls, original_stdout>>

\* exec(code, global_vars, local_vars), line 431: the next statement
exec_statement ==
    LET st == code[ip]
    IN CASE st.op = "print" ->
                IF "print" \in Builtins
                THEN /\ captured_output' = IF sys_stdout = "buffer"
                                           THEN Append(captured_output, st.arg)
                                           ELSE captured_output
                     /\ ip' = ip + 1
                     /\ UNCHANGED <<host_pc, code, sys_stdout, host_result,
                                    exec_calls, reached, original_stdout>>
                ELSE exec_fail("NameError")
         [] st.op = "import" ->
                IF "__import__" \in Builtins
                THEN /\ reached' = reached \cup {st.arg}
                     /\ ip' = ip + 1
                     /\ UNCHANGED <<host_pc, code, sys_stdout, captured_output,
                                    host_result, exec_calls, original_stdout>>
                ELSE exec_fail("ImportError")
         [] st.op = "exit" ->
                IF "__import__" \in Builtins
                THEN exec_escape(st.arg)
                ELSE exec_fail("ImportError")
         [] st.op = "write" ->
                IF "__import__" \in Builtins
                THEN /\ reached' = reached \cup {"sys"}
                     /\ original_stdout' = Append(original_stdout, st.arg)
                     /\ ip' = ip + 1
                     /\ UNCHANGED <<host_pc, code, sys_stdout, captured_output,
                                    host_result, exec_calls>>
                ELSE exec_fail("ImportError")
         [] OTHER -> exec_fail(st.arg)

\* lines 433-440 and the finally: exec returned
execute_return ==
    /\ host_result' = [success |-> TRUE, error_type |-> "none",
                       output |-> IF captured_output = <<>> THEN Placeholder
                                  ELSE captured_output]
    /\ sys_stdout' = "original"
    /\ host_pc' = "idle"
    /\ UNCHANGED <<code, ip, captured_output, exec_calls, reached, original_stdout>>

HostCall ==
    /\ host_pc \in {"idle", "raised"}
    /\ \E c \in Scripts : execute_enter(c)
    /\ UNCHANGED beside_host

HostStmt ==
    /\ host_pc = "exec"
    /\ ip <= Len(code)
    /\ exec_statement
    /\ UNCHANGED beside_host

HostReturn ==
    /\ host_pc = "exec"
    /\ ip > Len(code)
    /\ execute_return
    /\ UNCHANGED beside_host

\* ------------------------------------------------- RobotAPI called directly
\* One joint stands for the arm's six: the cache is a list of one value.
MotorNames == <<"j">>
NoCall == [call |-> "none", io |-> FALSE, ret |-> <<>>]
ValidJoint(j) == ~(j < 0 \/ j >= 6)
JointArgs == {0 - 1, 0, 6}

beside_api == <<callvars, reqvars, obsvars, camvars, hostvars, lockvars, genvars, mgrvars,
        storevars>>

\* what the follower yields for [obs[f"{name}.pos"] for name in motor_names]
DevAngles == [i \in 1..Len(MotorNames) |-> FollowerObs[WithPos(MotorNames[i])]]

\* TeleoperationManager.get_current_positions: the numeric entries of the
\* snapshot, None when there is no snapshot
get_current_positions == current_observation

\* read_all_positions, lines 174-185: each motor looked up without and with '.pos'
TeleopAngles(d) ==
    [i \in 1..Len(MotorNames) |->
        IF MotorNames[i] \in DOMAIN d THEN d[MotorNames[i]]
        ELSE IF WithPos(MotorNames[i]) \in DOMAIN d THEN d[WithPos(MotorNames[i])]
        ELSE 0]

\* _initialize_robot with its _update_positions; ok: the connect succeeds,
\* rok: the first read succeeds
RobotAPI_open(ok, rok) ==
    /\ initialize_robot(ok)
    /\ open_failed' = ~ok
    /\ positions' = IF ok /\ rok THEN DevAngles ELSE positions
    /\ api_last' = [call |-> "open", io |-> TRUE, ret |-> <<>>]

\* move_joint that takes the device branch whatever the handle is
move_joint_noSimulation(joint, angle, ok) ==
    IF ~ValidJoint(joint)
    THEN /\ api_last' = [call |-> "move", io |-> FALSE, ret |-> <<>>]
         /\ UNCHANGED <<positions, open_failed, api_robot>>
    ELSE /\ positions' = IF api_robot = "open" /\ ok
                         THEN [positions EXCEPT ![joint + 1] = angle]
                         ELSE positions
         /\ api_last' = [call |-> "move", io |-> TRUE, ret |-> <<>>]
         /\ UNCHANGED <<open_failed, api_robot>>

\* move_joint(joint, angle); ok: send_action does not raise
move_joint(joint, angle, ok) ==
    IF ~ValidJoint(joint)
    THEN /\ api_last' = [call |-> "move", io |-> FALSE, ret |-> <<>>]
         /\ UNCHANGED <<positions, open_failed, api_robot>>
    ELSE IF api_robot # "None"
    THEN /\ positions' = IF api_robot = "open" /\ ok
                         THEN [positions EXCEPT ![joint + 1] = angle]
                         ELSE positions
         /\ api_last' = [call |-> "move", io |-> TRUE, ret |-> <<>>]
         /\ UNCHANGED <<open_failed, api_robot>>
    ELSE /\ positions' = [positions EXCEPT ![joint + 1] = angle]
         /\ api_last' = [call |-> "move", io |-> FALSE, ret |-> <<>>]
         /\ UNCHANGED <<open_failed, api_robot>>

\* get_joint_position(joint); ok: get_observation does not raise
get_joint_position(joint, ok) ==
    IF ~ValidJoint(joint)
    THEN /\ api_last' = [call |-> "get", io |-> FALSE, ret |-> <<0>>]
         /\ UNCHANGED <<positions, open_failed, api_robot>>
    ELSE /\ positions' = IF api_robot = "open" /\ ok THEN DevAngles ELSE positions
         /\ api_last' = [call |-> "get", io |-> api_robot # "None",
                         ret |-> <<positions'[joint + 1]>>]
         /\ UNCHANGED <<open_failed, api_robot>>

\* read_all_positions(); ok: get_observation does not raise
read_all_positions(ok) ==
    IF is_running /\ get_current_positions # None
    THEN /\ positions' = TeleopAngles(get_current_positions)
         /\ api_last' = [call |-> "read_all", io |-> FALSE, ret |-> positions']
         /\ UNCHANGED <<open_failed, api_robot>>
    ELSE IF api_robot # "None"
    THEN /\ positions' = IF api_robot = "open" /\ ok THEN DevAngles ELSE positions
         /\ api_last' = [call |-> "read_all", io |-> TRUE,
                         ret |-> IF api_robot = "open" /\ ok THEN DevAngles
                                 ELSE [i \in 1..Len(MotorNames) |-> 0]]
         /\ UNCHANGED <<open_failed, api_robot>>
    ELSE /\ api_last' = [call |-> "read_all", io |-> FALSE, ret |-> positions]
         /\ UNCHANGED <<positions, open_failed, api_robot>>

CallOpen ==
    /\ busy = NONE
    /\ \E ok \in BOOLEAN, rok \in BOOLEAN : RobotAPI_open(ok, rok)
    /\ UNCHANGED <<tmvars, teleop_manager, teleop_mode, beside_api>>

CallDisconnect ==
    /\ busy = NONE
    /\ api_disconnect
    /\ api_last' = [call |-> "disconnect", io |-> api_robot # "None", ret |-> <<>>]
    /\ UNCHANGED <<positions, open_failed>>
    /\ UNCHANGED <<tmvars, teleop_manager, teleop_mode, beside_api>>

CallMove ==
    /\ busy = NONE
    /\ \E joint \in JointArgs, angle \in Vals, ok \in BOOLEAN : move_joint(joint, angle, ok)
    /\ UNCHANGED <<tmvars, teleop_manager, teleop_mode, beside_api>>

CallGet ==
    /\ busy = NONE
    /\ \E joint \in JointArgs, ok \in BOOLEAN : get_joint_position(joint, ok)
    /\ UNCHANGED <<tmvars, teleop_manager, teleop_mode, beside_api>>

CallReadAll ==
    /\ busy = NONE
    /\ \E ok \in BOOLEAN : read_all_positions(ok)
    /\ UNCHANGED <<tmvars, teleop_manager, teleop_mode, beside_api>>

\* ----------------------------------------------------------------- locks
\* TeleoperationManager.lock and CameraStream.lock.  A method is the sequence
\* of what it does, in program order:
\*   dev      a call into a device (or the JPEG encoder), which may raise
\*   acquire  entry of a `with self.lock:` block (waits while the lock is held)
\*   release  exit of the block
\*   mem      reads and writes of the object's own fields
\*   log      a logging call
\*   wait     a sleep, busy_wait or join
Locks == {"tm", "cam"}
Callers == {"h1", "h2"}
Threads == {"loop", "capture"} \cup Callers
Idle == [m |-> "idle", i |-> 0]
Op(k, x) == [k |-> k, x |-> x]

beside_locks == <<tmvars, callvars, webvars, reqvars, obsvars, camvars, hostvars,
                  apivars, genvars, mgrvars,
        storevars>>

\* one cycle of a loop that sends while it holds the lock
teleop_loop_steps_sendUnderLock ==
    <<Op("dev", "robot.get_observation"), Op("dev", "teleop.get_action"),
      Op("mem", "processors"), Op("acquire", "tm"),
      Op("dev", "robot.send_action"),
      Op("mem", "current_observation, current_action"), Op("log", "observation keys"),
      Op("release", "tm"), Op("wait", "busy_wait")>>

\* one cycle of _teleop_loop
teleop_loop_steps ==
    <<Op("dev", "robot.get_observation"), Op("dev", "teleop.get_action"),
      Op("mem", "processors"), Op("dev", "robot.send_action"),
      Op("acquire", "tm"),
      Op("mem", "current_observation, current_action"), Op("log", "observation keys"),
      Op("release", "tm"), Op("wait", "busy_wait")>>

\* one cycle of _capture_loop; a failed read goes on at error_count
capture_loop_steps ==
    <<Op("dev", "capture.read"), Op("acquire", "cam"),
      Op("mem", "current_frame, frame_count, last_frame_time"), Op("release", "cam"),
      Op("mem", "error_count"), Op("wait", "sleep")>>

start_steps ==
    <<Op("mem", "make_robot_from_config"), Op("dev", "teleop.connect"),
      Op("dev", "robot.connect"), Op("mem", "is_running, thread")>>

stop_steps ==
    <<Op("mem", "is_running"), Op("wait", "join"), Op("dev", "teleop.disconnect"),
      Op("dev", "robot.disconnect"),
      Op("mem", "teleop, robot, current_observation, current_action")>>

get_current_positions_steps ==
    <<Op("acquire", "tm"), Op("mem", "current_observation"), Op("release", "tm")>>

get_current_action_steps ==
    <<Op("acquire", "tm"), Op("mem", "current_action"), Op("release", "tm")>>

apply_leader_positions_steps ==
    <<Op("mem", "action"), Op("acquire", "tm"), Op("mem", "current_observation"),
      Op("release", "tm"), Op("mem", "robot_action_processor"),
      Op("dev", "robot.send_action"), Op("acquire", "tm"),
      Op("mem", "current_action"), Op("release", "tm")>>

cam_start_steps ==
    <<Op("dev", "cv2.VideoCapture"), Op("dev", "capture.set"),
      Op("mem", "is_running, thread")>>

cam_stop_steps ==
    <<Op("mem", "is_running"), Op("wait", "join"), Op("dev", "capture.release"),
      Op("mem", "capture")>>

get_frame_steps ==
    <<Op("acquire", "cam"), Op("mem", "current_frame.copy"), Op("release", "cam")>>

\* get_jpeg_frame: get_frame, then the encoder
get_jpeg_frame_steps == get_frame_steps \o <<Op("dev", "cv2.imencode")>>

LoopMethods == {"_teleop_loop", "_capture_loop"}
CallerMethods ==
    {"start", "stop", "get_current_positions", "get_current_action",
     "apply_leader_positions", "cam_start", "cam_stop", "get_frame", "get_jpeg_frame"}

MethodsOf(a) ==
    IF a = "loop" THEN {"_teleop_loop"}
    ELSE IF a = "capture" THEN {"_capture_loop"}
    ELSE CallerMethods

Steps(m) ==
    CASE m = "_teleop_loop" -> teleop_loop_steps
      [] m = "_capture_loop" -> capture_loop_steps
      [] m = "start" -> start_steps
      [] m = "stop" -> stop_steps
      [] m = "get_current_positions" -> get_current_positions_steps
      [] m = "get_current_action" -> get_current_action_steps
      [] m = "apply_leader_positions" -> apply_leader_positions_steps
      [] m = "cam_start" -> cam_start_steps
      [] m = "cam_stop" -> cam_stop_steps
      [] m = "get_frame" -> get_frame_steps
      [] OTHER -> get_jpeg_frame_steps

\* the operation thread a is at
Running(a) == lpos[a].m # "idle"
CurrentOp(a) == Steps(lpos[a].m)[lpos[a].i]
InDevice(a) == Running(a) /\ CurrentOp(a).k = "dev"
Waiting(a, l) == Running(a) /\ CurrentOp(a) = Op("acquire", l)

\* where a method goes on when a device call raises: _capture_loop counts the
\* error and sleeps, stop() has a try around each disconnect, every other
\* method is left (the loop by its break, the others by their return)
AfterRaise(m, i) ==
    IF m = "_capture_loop" THEN [m |-> m, i |-> 5]
    ELSE IF m = "stop" THEN [m |-> m, i |-> i + 1]
    ELSE Idle

\* after the last operation: a loop tests its flag and goes round or exits,
\* a method returns
AfterLast(m, again) ==
    IF m \in LoopMethods /\ again THEN [m |-> m, i |-> 1] ELSE Idle

Released(a) == [l \in Locks |-> IF lock_owner[l] = a THEN "free" ELSE lock_owner[l]]

\* a thread enters a method
LockEnter(a, m) ==
    /\ ~Running(a)
    /\ m \in MethodsOf(a)
    /\ lpos' = [lpos EXCEPT ![a] = [m |-> m, i |-> 1]]
    /\ UNCHANGED <<lock_owner, beside_locks>>

\* a thread completes the operation it is at; ok: a device call does not raise
LockStep(a, ok, again) ==
    /\ Running(a)
    /\ LET m == lpos[a].m
           i == lpos[a].i
           op == CurrentOp(a)
           next == IF i < Len(Steps(m)) THEN [m |-> m, i |-> i + 1]
                   ELSE AfterLast(m, again)
       IN CASE op.k = "acquire" ->
                 /\ lock_owner[op.x] = "free"
                 /\ lock_owner' = [lock_owner EXCEPT ![op.x] = a]
                 /\ lpos' = [lpos EXCEPT ![a] = next]
            [] op.k = "release" ->
                 /\ lock_owner' = [lock_owner EXCEPT ![op.x] = "free"]
                 /\ lpos' = [lpos EXCEPT ![a] = next]
            [] op.k = "dev" /\ ~ok ->      \* the with statement releases on the way out
                 /\ lock_owner' = Released(a)
                 /\ lpos' = [lpos EXCEPT ![a] = AfterRaise(m, i)]
            [] OTHER ->
                 /\ lpos' = [lpos EXCEPT ![a] = next]
                 /\ UNCHANGED lock_owner
    /\ UNCHANGED beside_locks

\* ---------------------------------------------------------- CameraManager
\* The manager makes one CameraStream per entry of its configuration and keeps
\* those whose start() returned True, by name.  Of a stream the manager sees
\* what start() returned and leaves behind: is_running and the capture.
Names == {"A", "B"}
StreamIds == 1..MaxStreams
Configs == UNION {[1..n -> [index : {0, 1}, name : Names]] : n \in 0..MaxConfigs}
NewStream == [is_running |-> FALSE, capture |-> "None", started |-> FALSE]

beside_registry == <<tmvars, callvars, webvars, reqvars, obsvars, camvars, hostvars,
                     apivars, lockvars, genvars, storevars>>

\* CameraStream.start() on a new stream, as cam_start leaves it; started is
\* what the call returns
stream_start(o) ==
    CASE o = "ok" -> [is_running |-> TRUE, capture |-> "open", started |-> TRUE]
      [] o = "not_opened" -> [is_running |-> FALSE, capture |-> "unopened", started |-> FALSE]
      [] o = "set_raises" -> [is_running |-> FALSE, capture |-> "open", started |-> FALSE]
      [] OTHER -> NewStream

\* CameraStream.stop(), as cam_stop_signal and cam_stop_release leave it
stream_stop(s) == [s EXCEPT !.is_running = FALSE, !.capture = "None"]

\* an initialize() that registers every stream it makes
register_always(st, id, s, name) ==
    [cameras |-> [st.cameras EXCEPT ![name] = id],
     streams |-> [st.streams EXCEPT ![id] = s],
     made |-> id]

\* initialize(), lines 168-175: the stream is registered if its start() returned True
register(st, id, s, name) ==
    [cameras |-> IF s.started THEN [st.cameras EXCEPT ![name] = id] ELSE st.cameras,
     streams |-> [st.streams EXCEPT ![id] = s],
     made |-> id]

\* initialize(), lines 162-175: the loop over the configuration from entry k on;
\* outs[k] is how the start() of entry k ends
RECURSIVE initialize_loop(_, _, _)
initialize_loop(k, outs, st) ==
    IF k > Len(camera_config) THEN st
    ELSE initialize_loop(k + 1, outs,
            register(st, st.made + 1, stream_start(outs[k]), camera_config[k].name))

Registered(reg) == {n \in Names : reg[n] # 0}

\* CameraManager(camera_config)
MgrNew ==
    /\ mgr_last = "none"
    /\ \E cfg \in Configs : camera_config' = cfg
    /\ cameras' = [n \in Names |-> 0]
    /\ mgr_last' = "new"
    /\ UNCHANGED <<streams, made, init_ret, beside_registry>>

\* initialize()
MgrInitialize ==
    /\ mgr_last # "none"
    /\ made + Len(camera_config) <= MaxStreams
    /\ \E outs \in [1..Len(camera_config) -> CamStartOutcomes] :
          LET st == initialize_loop(1, outs,
                       [cameras |-> cameras, streams |-> streams, made |-> made])
          IN /\ cameras' = st.cameras
             /\ streams' = st.streams
             /\ made' = st.made
             /\ init_ret' = (Cardinality(Registered(st.cameras)) > 0)
    /\ mgr_last' = "initialize"
    /\ UNCHANGED <<camera_config, beside_registry>>

\* shutdown()
MgrShutdown ==
    /\ mgr_last # "none"
    /\ streams' = [id \in StreamIds |->
                     IF \E n \in Names : cameras[n] = id
                     THEN stream_stop(streams[id]) ELSE streams[id]]
    /\ cameras' = [n \in Names |-> 0]
    /\ mgr_last' = "shutdown"
    /\ UNCHANGED <<camera_config, made, init_ret, beside_registry>>

\* ------------------------------------------- BlocklyManager's named stores
\* saved_positions and saved_programs are dicts from a name to a record; a name
\* without an entry maps to None.  Each has a file that a dump rewrites: the
\* file holds what was dumped, or is left truncated when the dump fails after
\* open(..., 'w').  The timestamp of a record is left out.
StoreNames == {"p", "q"}
AngleLists == {<<1>>, <<2>>}
Workspaces == {"w1", "w2"}
EmptyStore == [n \in StoreNames |-> None]
Truncated == [n \in StoreNames |-> [truncated |-> TRUE]]

beside_stores == <<tmvars, callvars, webvars, reqvars, obsvars, camvars, hostvars,
                   apivars, lockvars, genvars, mgrvars>>

\* save_positions_to_disk / save_programs; ok: open and json.dump do not raise.
\* The exception stays inside.
dump(store, ok) == IF ok THEN store ELSE Truncated

\* save_position(name, angles, description)
save_position(name, angles, ok) ==
    /\ saved_positions' = [saved_positions EXCEPT
                              ![name] = [angles |-> angles, description |-> ""]]
    /\ positions_file' = dump(saved_positions', ok)
    /\ store_last' = [call |-> "save_position", name |-> name, ret |-> TRUE]
    /\ UNCHANGED <<saved_programs, programs_file>>

\* a delete_position that reports success whatever it found
delete_position_alwaysTrue(name, ok) ==
    /\ IF saved_positions[name] # None
       THEN /\ saved_positions' = [saved_positions EXCEPT ![name] = None]
            /\ positions_file' = dump(saved_positions', ok)
       ELSE UNCHANGED <<saved_positions, positions_file>>
    /\ store_last' = [call |-> "delete_position", name |-> name, ret |-> TRUE]
    /\ UNCHANGED <<saved_programs, programs_file>>

\* delete_position(name)
delete_position(name, ok) ==
    /\ IF saved_positions[name] # None
       THEN /\ saved_positions' = [saved_positions EXCEPT ![name] = None]
            /\ positions_file' = dump(saved_positions', ok)
       ELSE UNCHANGED <<saved_positions, positions_file>>
    /\ store_last' = [call |-> "delete_position", name |-> name,
                      ret |-> saved_positions[name] # None]
    /\ UNCHANGED <<saved_programs, programs_file>>

\* save_program(name, workspace_json, python_code)
save_program(name, workspace, ok) ==
    /\ saved_programs' = [saved_programs EXCEPT
                             ![name] = [workspace |-> workspace, python_code |-> "code"]]
    /\ programs_file' = dump(saved_programs', ok)
    /\ store_last' = [call |-> "save_program", name |-> name, ret |-> TRUE]
    /\ UNCHANGED <<saved_positions, positions_file>>

\* delete_program(name)
delete_program(name, ok) ==
    /\ IF saved_programs[name] # None
       THEN /\ saved_programs' = [saved_programs EXCEPT ![name] = None]
            /\ programs_file' = dump(saved_programs', ok)
       ELSE UNCHANGED <<saved_programs, programs_file>>
    /\ store_last' = [call |-> "delete_program", name |-> name,
                      ret |-> saved_programs[name] # None]
    /\ UNCHANGED <<saved_positions, positions_file>>

StoreSavePosition ==
    /\ \E n \in StoreNames, a \in AngleLists, ok \in BOOLEAN : save_position(n, a, ok)
    /\ UNCHANGED beside_stores

StoreDeletePosition ==
    /\ \E n \in StoreNames, ok \in BOOLEAN : delete_position(n, ok)
    /\ UNCHANGED beside_stores

StoreSaveProgram ==
    /\ \E n \in StoreNames, w \in Workspaces, ok \in BOOLEAN : save_program(n, w, ok)
    /\ UNCHANGED beside_stores

StoreDeleteProgram ==
    /\ \E n \in StoreNames, ok \in BOOLEAN : delete_program(n, ok)
    /\ UNCHANGED beside_stores

\* ------------------------------------------------- generate_mjpeg_stream
\* One generator over the CameraStream.  Its consumer asks for the next chunk;
\* the generator runs to its next yield, or sleeps and goes round, or returns.
beside_stream == <<tmvars, callvars, webvars, reqvars, obsvars, camvars, hostvars,
                   apivars, lockvars, mgrvars,
        storevars>>

\* get_jpeg_frame(quality); ok: cv2.imencode does not raise
jpeg_data(ok) == IF ok THEN get_jpeg_frame ELSE <<>>

\* the generator is made and asked for its first chunk
GenAttach ==
    /\ gen_pc \in {"none", "done"}
    /\ gen_pc' = "test"
    /\ gen_yield' = <<>>
    /\ UNCHANGED beside_stream

\* a generator that never looks at the flag
GenTest_ignoresFlag ==
    /\ gen_pc = "test"
    /\ gen_pc' = "fetch"
    /\ gen_yield' = <<>>
    /\ UNCHANGED beside_stream

\* line 216: while camera.is_running
GenTest ==
    /\ gen_pc = "test"
    /\ gen_pc' = IF cam_is_running THEN "fetch" ELSE "done"
    /\ gen_yield' = <<>>
    /\ UNCHANGED beside_stream

\* lines 217-224: a chunk with the JPEG is yielded, or the generator sleeps
GenFetch ==
    /\ gen_pc = "fetch"
    /\ \E ok \in BOOLEAN : gen_yield' = jpeg_data(ok)
    /\ gen_pc' = "test"
    /\ UNCHANGED beside_stream

GenStep == GenTest \/ GenFetch

Init ==
    /\ is_running = FALSE
    /\ robot = "None"
    /\ teleop = "None"
    /\ thread = 0
    /\ current_observation = None
    /\ current_action = None
    /\ thr = [t \in Tids |-> IdleThread]
    /\ orphans = 0
    /\ busy = NONE
    /\ joining = FALSE
    /\ applied = None
    /\ pubsSince = 0
    /\ teleop_manager = FALSE
    /\ teleop_mode = "stopped"
    /\ api_robot = "None"
    /\ epc = [r \in Execs |-> "idle"]
    /\ was_teleop_running = [r \in Execs |-> FALSE]
    /\ attempt = [r \in Execs |-> 0]
    /\ retry_delay = [r \in Execs |-> 2]
    /\ waits = [r \in Execs |-> <<>>]
    /\ result = [r \in Execs |-> "none"]
    /\ elapsed = [r \in Execs |-> 0]
    /\ ran = [r \in Execs |-> FALSE]
    /\ restarted = [r \in Execs |-> FALSE]
    /\ tm_stops = 0
    /\ stop_log = NoDisconnects
    /\ tm_last = [call |-> "none", ret |-> FALSE]
    /\ cam_is_running = FALSE
    /\ capture = "None"
    /\ cam_thread = 0
    /\ current_frame = 0
    /\ error_count = 0
    /\ cthr = [t \in CamTids |-> "none"]
    /\ cam_joining = FALSE
    /\ cam_stops = 0
    /\ last_good = 0
    /\ frame_count = 0
    /\ fails_in_row = 0
    /\ host_pc = "idle"
    /\ code = <<>>
    /\ ip = 0
    /\ sys_stdout = "original"
    /\ captured_output = <<>>
    /\ host_result = None
    /\ exec_calls = 0
    /\ reached = {}
    /\ original_stdout = <<>>
    /\ positions = [i \in 1..Len(MotorNames) |-> 0]
    /\ open_failed = FALSE
    /\ api_last = NoCall
    /\ lock_owner = [l \in Locks |-> "free"]
    /\ lpos = [a \in Threads |-> Idle]
    /\ gen_pc = "none"
    /\ gen_yield = <<>>
    /\ camera_config = <<>>
    /\ cameras = [n \in Names |-> 0]
    /\ streams = [id \in StreamIds |-> NewStream]
    /\ made = 0
    /\ init_ret = FALSE
    /\ mgr_last = "none"
    /\ saved_positions = EmptyStore
    /\ saved_programs = EmptyStore
    /\ positions_file = EmptyStore
    /\ programs_file = EmptyStore
    /\ store_last = [call |-> "none", name |-> "", ret |-> FALSE]

\* the manager driven directly: start, stop, apply_leader_positions, the loop
NextTM == TMStart \/ TMStopBegin \/ TMStopEnd \/ TMStopIdle \/ TMApply \/ LoopStep

SpecTM == Init /\ [][NextTM]_vars

\* the web server: its handlers on the event loop, the control loop threads
Next == ApiStart \/ ApiStopBegin \/ ApiStopEnd \/ Execute \/ LoopStep

Spec == Init /\ [][Next]_vars

\* one CameraStream driven directly: start, stop, its capture threads
NextCam == CamStart \/ CamStopBegin \/ CamStopEnd \/ CamStep

SpecCam == Init /\ [][NextCam]_vars

\* execute_python_code called with one script after another
NextScript == HostCall \/ HostStmt \/ HostReturn

SpecScript == Init /\ [][NextScript]_vars

\* the RobotAPI called directly, beside the web layer's start and stop of the
\* control loop
NextAPI ==
    \/ CallOpen \/ CallDisconnect \/ CallMove \/ CallGet \/ CallReadAll
    \/ ApiStart \/ ApiStopBegin \/ ApiStopEnd \/ LoopStep

SpecAPI == Init /\ [][NextAPI]_vars

\* the threads of the server, each going through its methods one operation at
\* a time
NextLock ==
    \E a \in Threads :
        \/ \E m \in CallerMethods \cup LoopMethods : LockEnter(a, m)
        \/ \E ok \in BOOLEAN, again \in BOOLEAN : LockStep(a, ok, again)

SpecLock == Init /\ [][NextLock]_vars

\* one CameraStream with a stream generator on it
NextStream == NextCam \/ GenAttach \/ GenStep

SpecStream == Init /\ [][NextStream]_vars

\* the capture threads run, and the consumer of the stream keeps asking
FairSpecStream ==
    /\ SpecStream
    /\ \A t \in CamTids : WF_vars(CamLoop(t))
    /\ WF_vars(GenStep)

\* one CameraManager: made, initialized, shut down
NextMgr == MgrNew \/ MgrInitialize \/ MgrShutdown

SpecMgr == Init /\ [][NextMgr]_vars

\* the stores of one BlocklyManager, called one after another
NextStore ==
    StoreSavePosition \/ StoreDeletePosition \/ StoreSaveProgram \/ StoreDeleteProgram

SpecStore == Init /\ [][NextStore]_vars

\* the operating system lets every live thread run
FairSpec == Spec /\ \A t \in Tids : WF_vars(LoopThread(t))

\* The manager and a CameraStream side by side.  They share no variable: a
\* step of one neither enables, disables nor alters a step of the other, so a
\* behaviour of the pair is an interleaving of a behaviour of each, and what
\* holds of each object in its own behaviours holds of it in the pair.  A
\* behaviour of this specification therefore drives one of the two objects and
\* leaves the other as constructed.
ManagerUnused ==
    /\ ~is_running /\ thread = 0 /\ robot = "None" /\ teleop = "None"
    /\ ~joining /\ busy = NONE /\ tm_stops = 0 /\ tm_last.call = "none"
CameraUnused ==
    /\ ~cam_is_running /\ cam_thread = 0 /\ capture = "None"
    /\ ~cam_joining /\ cam_stops = 0

NextLoops ==
    \/ CameraUnused /\ NextTM
    \/ ManagerUnused /\ NextCam

SpecLoops == Init /\ [][NextLoops]_vars

\* every live thread of either kind gets to run: its pending device call returns
FairSpecLoops ==
    /\ SpecLoops
    /\ \A t \in Tids : WF_vars(LoopThread(t))
    /\ \A t \in CamTids : WF_vars(CamLoop(t))

\* ------------------------------------------------------------------ claims
\* C1: at no instant do the TeleoperationManager and the Blockly RobotAPI both
\* hold an open connection to the follower.
C1_OneOwner == ~(robot = "open" /\ api_robot = "open")

\* C2: one script holds the follower at a time: while a request is between its
\* successful connect and its disconnect it is the only one there, the shared
\* RobotAPI handle is the one it opened, and no step of another request
\* connects, runs script code or disconnects; the others wait.
C2_OneScriptAtATime ==
    /\ [](\A r \in Execs : epc[r] = "exec" =>
             /\ api_robot = "open"
             /\ \A q \in Execs \ {r} : epc[q] \in {"idle", "sleep5", "retry", "sleep3"})
    /\ [][\A r \in Execs : epc[r] = "exec" =>
             /\ \A q \in Execs \ {r} :
                   /\ epc'[q] = epc[q]
                   /\ attempt'[q] = attempt[q]
                   /\ elapsed'[q] = elapsed[q]
                   /\ ran'[q] = ran[q]
             /\ api_robot' # api_robot => epc'[r] = "sleep3"]_vars

C2_Witness ==
    \E r \in Execs, q \in Execs :
        /\ epc[r] = "exec" /\ elapsed[r] >= 1
        /\ epc[q] \in {"sleep5", "retry"}

\* C3: the manager never holds more than one open follower connection,
\* whatever start and stop calls it gets.
C3_NoDoubleOpen == OpenCount <= 1

\* a second run of the loop: the thread of the first run is still alive
C3_Witness ==
    /\ is_running /\ robot = "open"
    /\ \E t \in Tids : t # thread /\ Alive(t)

\* C4: a script is terminated when it exceeds its timeout: no script is still
\* executing after more than the timeout.
C4_TimeoutTerminates == \A r \in Execs : epc[r] = "exec" => elapsed[r] <= ScriptTimeout

C6_RetrySchedule ==
    /\ [](\A r \in Execs :
             /\ attempt[r] <= max_retries
             /\ waits[r] = SubSeq(<<2, 3>>, 1, Len(waits[r]))
             /\ epc[r] = "retry" => Len(waits[r]) = attempt[r]
             /\ epc[r] = "exec" => Len(waits[r]) = attempt[r] - 1 /\ api_robot = "open"
             /\ result[r] = "unavailable" => Len(waits[r]) = attempt[r] - 1
             /\ epc[r] = "sleep3" => (ran[r] <=> result[r] \in {"ok", "error"})
             /\ epc[r] \in {"init", "stopping", "sleep5", "retry"} => ~ran[r])
    /\ [][\A r \in Execs :
             /\ attempt'[r] > attempt[r] => epc[r] \in {"init", "sleep5", "retry"}
             /\ (epc[r] = "exec" /\ epc'[r] = "sleep3") => ran[r]]_vars

C6_Witness ==
    \E r \in Execs : epc[r] = "exec" /\ attempt[r] = 3 /\ waits[r] = <<2, 3>> /\ ran[r]

\* the state a successful restart by request r leaves: the loop thread started,
\* both devices open, no snapshot yet
RestartedOK(r) ==
    /\ epc[r] = "idle" /\ restarted[r]
    /\ is_running /\ teleop_manager /\ robot = "open" /\ teleop = "open"
    /\ thread # 0 /\ thr[thread].pc = "check"
    /\ current_observation = None

C8_HandleAbsent ==
    (\A r \in Execs : epc[r] \in {"idle", "sleep3"}) => api_robot = "None"

\* C9: apply_leader_positions sends nothing to the follower while a cycle of the
\* control loop is between its observation read and its send.
C9_SingleWriter ==
    [][(applied' # applied /\ applied' # None) => \A t \in Tids : ~MidCycle(t)]_vars

\* C10: while the loop runs, from a successful apply_leader_positions(p) until
\* the end of the cycle period that follows, get_current_action returns the
\* transformed p.
C10_ReadReflectsTarget ==
    (is_running /\ applied # None /\ pubsSince <= 1) => get_current_action = applied

\* C11: for TeleoperationManager and for CameraStream, a stop() ends in "not
\* running, device handles released and absent", and a second stop() in a row
\* changes nothing and releases nothing.
C11_ManagerStopTwice ==
    /\ [](tm_stops >= 1 => (~is_running /\ robot = "None" /\ teleop = "None"))
    /\ [][(tm_stops >= 1 /\ tm_stops' > tm_stops) =>
             (UNCHANGED tmvars /\ stop_log' = NoDisconnects)]_vars

C11_CameraStopTwice ==
    /\ [](cam_stops >= 1 => (~cam_is_running /\ capture = "None"))
    /\ [][(cam_stops >= 1 /\ cam_joining /\ ~cam_joining') =>
             UNCHANGED <<cam_is_running, capture, cam_thread, current_frame,
                         error_count, cthr>>]_vars

C11_StopTwiceSameAsOnce == C11_ManagerStopTwice /\ C11_CameraStopTwice

\* C12: once 10 reads in a row have failed the capture loop has stopped:
\* is_running is False from the tenth failure on.
C12_StopsAtTenFailures == fails_in_row >= FailureThreshold => ~cam_is_running

\* the stream stopped itself on repeated failures and was not started since
CamFailed == ~cam_is_running /\ error_count > FailureThreshold

C14_FailureFlipsStatus == is_running => (thread # 0 /\ Alive(thread))

\* C15: a stop() of a running manager calls disconnect on the leader and on the
\* follower whatever either call raises, returns normally, and leaves both
\* handles and both snapshots absent.
C15_BothDisconnectsAttempted ==
    [][(joining /\ ~joining') =>
          /\ stop_log'.teleop \in {"ok", "raised"}
          /\ stop_log'.robot \in {"ok", "raised"}
          /\ robot' = "None" /\ teleop' = "None"
          /\ current_observation' = None /\ current_action' = None
          /\ ~is_running']_vars

C15_Witness ==
    /\ stop_log.teleop = "raised" /\ stop_log.robot \in {"ok", "raised"}
    /\ tm_stops = 1 /\ robot = "None" /\ teleop = "None"

\* the text the print statements of a statement sequence write
RECURSIVE Printed(_)
Printed(c) ==
    IF c = <<>> THEN <<>>
    ELSE IF Head(c).op = "print" THEN <<Head(c).arg>> \o Printed(Tail(c))
    ELSE Printed(Tail(c))

\* the first raise statement of a script, 0 when it has none
FirstRaise(c) ==
    IF \E i \in 1..Len(c) : c[i].op = "raise"
    THEN CHOOSE i \in 1..Len(c) :
            c[i].op = "raise" /\ \A k \in 1..(i - 1) : c[k].op # "raise"
    ELSE 0

\* C16: a script that raises gives success False, the kind of the exception and
\* exactly the text printed before the raise, and nothing of the script runs
\* after the raise or a second time; a script that returns gives success True
\* and all the text it printed (a fixed message when it printed nothing).
C16_ResultCarriesOutput ==
    (host_pc = "idle" /\ host_result # None) =>
        LET k == FirstRaise(code)
        IN /\ exec_calls = 1
           /\ IF k = 0
              THEN /\ host_result.success
                   /\ host_result.output = IF Printed(code) = <<>> THEN Placeholder
                                           ELSE Printed(code)
                   /\ ip = Len(code) + 1
              ELSE /\ ~host_result.success
                   /\ host_result.error_type = code[k].arg
                   /\ host_result.output = Printed(SubSeq(code, 1, k - 1))
                   /\ ip = k

C16_Witness ==
    /\ host_pc = "idle" /\ host_result # None
    /\ ~host_result.success /\ host_result.error_type = "KeyError"
    /\ host_result.output = <<"a", "b">>

\* C17: a script reaches no module through import: it has the fixed surface
\* (robot, time, positions, the listed builtins) and nothing else.
C17_OnlyCapabilitySurface == reached = {}

\* C18: CameraStream.stop() clears is_running, and when it returns, after the
\* thread has exited or the join has timed out, the capture is released and
\* absent.
C18_StopReleases ==
    [][/\ (~cam_joining /\ cam_joining') => ~cam_is_running'
       /\ (cam_joining /\ ~cam_joining') =>
             (capture' = "None" /\ ~cam_is_running')]_vars

\* stop() has returned on a join that timed out
C18_Witness ==
    /\ ~cam_joining /\ cam_stops >= 1 /\ capture = "None"
    /\ cam_thread # 0 /\ CamAlive(cam_thread)

\* the pairs (observation, action sent) one cycle of the loop can publish
CyclePairs ==
    {<<FollowerObs,
       robot_action_processor(teleop_action_processor(LeaderAction, FollowerObs),
                              FollowerObs)>>}

\* C19: current_observation and current_action are both absent or are the
\* observation and the action of one completed cycle.
C19_ConsistentPair ==
    <<current_observation, current_action>> \in {<<None, None>>} \cup CyclePairs

\* a step that is a call of move_joint, get_joint_position or read_all_positions
\* on a RobotAPI whose last open failed
SimCall(c) == open_failed /\ api_last' # api_last /\ api_last'.call = c

\* C20 as claimed: after a failed open the handle is None and every move_joint,
\* get_joint_position and read_all_positions does no device I/O and works on the
\* cached positions only.
C20_CacheOnlyAfterFailedOpen ==
    /\ [](open_failed => api_robot = "None")
    /\ [][/\ (\E c \in {"move", "get", "read_all"} : SimCall(c)) => ~api_last'.io
          /\ SimCall("get") =>
                (positions' = positions /\ api_last'.ret \in
                    {<<0>>} \cup {<<positions[i]>> : i \in 1..Len(positions)})
          /\ SimCall("read_all") =>
                (positions' = positions /\ api_last'.ret = positions)]_vars

\* C20 as amended: after a failed open the handle is None and no move_joint,
\* get_joint_position or read_all_positions does device I/O; move_joint writes
\* the cache, get_joint_position reads it, and read_all_positions returns the
\* cache, except while the control loop runs and has published a snapshot: then
\* it returns the snapshot's positions and stores them in the cache.
C20_NoDeviceAfterFailedOpen ==
    /\ [](open_failed => api_robot = "None")
    /\ [][/\ (\E c \in {"move", "get", "read_all"} : SimCall(c)) => ~api_last'.io
          /\ SimCall("get") =>
                (positions' = positions /\ api_last'.ret \in
                    {<<0>>} \cup {<<positions[i]>> : i \in 1..Len(positions)})
          /\ SimCall("read_all") =>
                IF is_running /\ current_observation # None
                THEN /\ api_last'.ret = TeleopAngles(current_observation)
                     /\ positions' = api_last'.ret
                ELSE positions' = positions /\ api_last'.ret = positions]_vars

C20_Witness ==
    /\ open_failed /\ api_robot = "None"
    /\ api_last.call = "read_all" /\ ~api_last.io
    /\ is_running /\ current_observation # None

\* C21: the joint values of the RobotAPI are the last successfully read or
\* written ones: every read_all_positions call returns a complete set it has
\* just read (from the device, or from the running loop's snapshot) or the set
\* cached before the call, and what it returns is what the cache then holds.
C21_LastGoodValues ==
    [][(api_last' # api_last /\ api_last'.call = "read_all") =>
          /\ api_last'.ret \in
                {DevAngles, positions} \cup
                (IF is_running /\ get_current_positions # None
                 THEN {TeleopAngles(get_current_positions)} ELSE {})
          /\ api_last'.ret = positions']_vars

\* C22: within one execute request that found the control loop running, the
\* first open attempt of the script host comes only after the loop thread has
\* exited and the loop's follower connection is released, and the restart of
\* the loop comes only after the script host's disconnect.
C22_HandoverOrder ==
    [][\A r \in Execs : was_teleop_running[r] =>
          /\ (epc[r] = "sleep5" /\ epc'[r] # "sleep5") =>
                ((\A t \in Tids : ~Alive(t)) /\ robot # "open")
          /\ (epc[r] = "sleep3" /\ epc'[r] = "idle") => api_robot # "open"]_vars

\* C23: a cycle of the control loop that raises does nothing more: the thread
\* goes from the failing step straight to its exit without publishing, the
\* snapshot is written by the loop only from a cycle whose send succeeded, and
\* an exited thread does not come back to retry.
C23_FailedCycleEnds ==
    [][\A t \in Tids :
          /\ (MidCycle(t) /\ thr'[t].pc # thr[t].pc) =>
                \/ thr'[t].pc = "none"
                      /\ UNCHANGED <<current_observation, current_action>>
                \/ thr[t].pc = "leader" /\ thr'[t].pc = "send"
                \/ thr[t].pc = "send" /\ thr'[t].pc = "publish"
          /\ (thr[t].pc = "check" /\ thr'[t].pc = "none") =>
                UNCHANGED <<current_observation, current_action>>
          /\ (thr[t].pc = "send" /\ robot # "open" /\ thr'[t] # thr[t]) =>
                thr'[t].pc = "none"
          /\ (current_observation' # current_observation
                /\ current_observation' # None) =>
                \E u \in Tids : thr[u].pc = "publish" /\ thr'[u].pc = "check"
          /\ (thr[t].pc = "none" /\ thr'[t].pc # "none") =>
                (~is_running /\ is_running' /\ thread' = t)]_vars

\* a thread has died in a cycle that followed a published one: the snapshot
\* on display is the earlier cycle's
C23_Witness ==
    /\ is_running /\ thread # 0
    /\ ~Alive(thread)
    /\ current_observation # None

\* C24: a start() that fails leaves no device connected and both handles
\* absent: whenever the manager is not running and no stop() is under way,
\* neither device is connected and neither handle is set.
C24_FailedStartCleansUp ==
    (~is_running /\ ~joining) =>
        /\ teleop # "open" /\ robot # "open"
        /\ teleop = "None" /\ robot = "None"

\* C25: at most one control loop thread executes cycles at any instant.
C25_OneLoopThread == Cardinality({t \in Tids : Alive(t)}) <= 1

\* C28: once stop() has returned, and until the next start(), the snapshot
\* getters return absent.
C28_AbsentAfterStop ==
    tm_stops >= 1 => (get_current_positions = None /\ get_current_action = None)

\* C26: one CameraStream has at most one capture thread at any instant,
\* whatever sequence of start() and stop() calls it gets.
C26_OneCaptureThread == Cardinality({t \in CamTids : CamAlive(t)}) <= 1

\* C27: a successful read sets the failure count to 0, and a capture loop
\* started again after it had stopped on failures begins with a count of 0.
C27_CountStartsAtZero ==
    [][/\ (\E t \in CamTids : cthr[t] = "read" /\ cthr'[t] = "check"
                                /\ fails_in_row' = 0) => error_count' = 0
       /\ (CamFailed /\ cam_is_running') => error_count' = 0]_vars

\* C29: once the exit flag is down a control loop thread, and likewise a
\* capture thread, begins no new cycle: the step it takes at its while test is
\* its exit; and unless a start() raises the flag again every thread
\* eventually exits, the cycle in flight being the last one it completes.
C29_FlagEndsLoop ==
    /\ [][/\ \A t \in Tids :
                (thr[t].pc = "check" /\ ~is_running /\ thr'[t] # thr[t]) =>
                    thr'[t].pc = "none"
          /\ \A t \in CamTids :
                (cthr[t] = "check" /\ ~cam_is_running /\ cthr'[t] # cthr[t]) =>
                    cthr'[t] = "none"]_vars
    /\ (thread # 0 /\ ~is_running) ~> (is_running \/ \A t \in Tids : ~Alive(t))
    /\ (cam_thread # 0 /\ ~cam_is_running)
          ~> (cam_is_running \/ \A t \in CamTids : ~CamAlive(t))

\* stop() has set the flag while the thread is in the middle of a cycle
C29_Witness ==
    /\ ~is_running /\ joining
    /\ thread # 0 /\ MidCycle(thread)

\* C30: neither lock is held by a thread that is in a device operation
\* (capture read, JPEG encode, follower read or send, leader read, connect,
\* disconnect): so a thread waiting for a lock never waits for a holder that
\* is in device I/O.
C30_NoLockAcrossIO ==
    /\ \A a \in Threads : InDevice(a) => \A l \in Locks : lock_owner[l] # a
    /\ \A a \in Threads, l \in Locks :
          (Waiting(a, l) /\ lock_owner[l] # "free") => ~InDevice(lock_owner[l])

\* both producers are inside a device call while one reader holds the
\* manager's lock and another the camera's
C30_Witness ==
    /\ InDevice("loop") /\ InDevice("capture")
    /\ lock_owner["tm"] \in Callers /\ lock_owner["cam"] \in Callers
    /\ lock_owner["tm"] # lock_owner["cam"]

\* a step in which a capture thread completes a read
ReadStep == \E t \in CamTids : cthr[t] = "read" /\ cthr'[t] # "read"

\* C31: frame_count never decreases, goes up by exactly 1 with each successful
\* read and stays with each failed read and every other step; get_frame
\* returns absent until the first successful read and from then on the frame
\* of the most recent successful read.
C31_FrameCountAndFrame ==
    /\ [](get_frame = last_good /\ (frame_count = 0 <=> get_frame = 0))
    /\ [][/\ frame_count' >= frame_count
          /\ (ReadStep /\ fails_in_row' = 0 /\ frame_count < MaxFrameCount) =>
                frame_count' = frame_count + 1
          /\ (ReadStep /\ fails_in_row' # 0) => frame_count' = frame_count
          /\ ~ReadStep => frame_count' = frame_count]_vars

\* two reads have succeeded and a later one has failed
C31_Witness ==
    /\ frame_count >= 2 /\ fails_in_row >= 1
    /\ get_frame # 0 /\ get_frame = last_good

\* C32: however a script ends, execute_python_code returns a result dict to
\* its caller and no exception leaves it.
C32_AlwaysReturnsResult ==
    /\ host_pc # "raised"
    /\ (host_pc = "idle" /\ exec_calls >= 1) => host_result # None

\* C33: outside a call sys.stdout is the object it was before the call, and
\* no text of the script reaches that stdout.
C33_StdoutRestored ==
    /\ host_pc # "exec" => sys_stdout = "original"
    /\ original_stdout = <<>>

\* C34: whenever no stop() is in the middle of its join, teleop_mode is
\* "teleoperation" exactly when state.is_running() is True and "stopped"
\* otherwise.
C34_ModeFollowsRunning ==
    ~joining =>
        /\ teleop_mode \in {"teleoperation", "stopped"}
        /\ teleop_mode = "teleoperation" <=> state_is_running

\* an execute request has put the loop back and the mode says so
C34_Witness ==
    /\ \E r \in Execs : restarted[r] /\ epc[r] = "idle"
    /\ state_is_running /\ teleop_mode = "teleoperation"

\* C35: start() called while is_running is True returns False and changes
\* nothing of the manager (no device made or connected, no thread, handles
\* and snapshot as they were); apply_leader_positions called while the manager
\* is not running, or has no robot, returns False, sends nothing and leaves
\* current_action as it was.
C35_GuardedCallsChangeNothing ==
    [][/\ (is_running /\ TMStart) => (~tm_last'.ret /\ UNCHANGED tmvars)
       /\ ((~is_running \/ robot = "None") /\ TMApply) =>
             (~tm_last'.ret /\ UNCHANGED tmvars)]_vars

\* start() has been called on a running manager that had published a snapshot
C35_Witness ==
    /\ tm_last = [call |-> "start", ret |-> FALSE]
    /\ is_running /\ thread # 0 /\ Alive(thread)
    /\ current_observation # None /\ OpenCount = 1

\* what one pass of the generator may yield: the JPEG of the current frame, or
\* nothing (it waits) when there is no frame or the encoder fails
YieldsWholeFrames ==
    [][(gen_pc = "fetch" /\ gen_pc' = "test") =>
          /\ gen_yield' \in {<<>>, Jpeg(current_frame)}
          /\ current_frame = 0 => gen_yield' = <<>>]_vars

Attached == gen_pc \in {"test", "fetch"}

\* C36 as claimed: a generator attached to a camera terminates once the
\* camera's is_running has become False, and yields only complete frames,
\* waiting when there is none.
C36_StreamEnds ==
    /\ YieldsWholeFrames
    /\ (Attached /\ ~cam_is_running) ~> (gen_pc = "done")

\* C36 as amended: the generator terminates once is_running has become False,
\* unless a start() has set it True again before the generator tests it.
C36_StreamEndsUnlessRestarted ==
    /\ YieldsWholeFrames
    /\ (Attached /\ ~cam_is_running) ~> (gen_pc = "done" \/ cam_is_running)
    /\ [][(gen_pc = "test" /\ ~cam_is_running /\ gen_pc' # gen_pc) =>
             gen_pc' = "done"]_vars

\* the generator has yielded a frame and the camera has since stopped on
\* repeated read failures
C36_Witness ==
    /\ gen_pc = "test" /\ gen_yield # <<>>
    /\ CamFailed

OthersKept(old, new, n) == \A m \in StoreNames \ {n} : new[m] = old[m]

\* C38: after save_position(n, a) the record of n holds a, whatever was saved
\* under n before, and the other names are unchanged; delete_position(n) and
\* delete_program(n) return True exactly when n had an entry, remove only n,
\* and on a name without an entry return False and change nothing.
C38_StoresLastWriteWins ==
    [][LET n == store_last'.name
       IN /\ \A a \in AngleLists :
                (\E ok \in BOOLEAN : save_position(n, a, ok)) =>
                    /\ saved_positions'[n] # None
                    /\ saved_positions'[n].angles = a
                    /\ OthersKept(saved_positions, saved_positions', n)
                    /\ store_last'.ret
          /\ store_last'.call = "delete_position" =>
                /\ store_last'.ret <=> saved_positions[n] # None
                /\ saved_positions'[n] = None
                /\ OthersKept(saved_positions, saved_positions', n)
                /\ saved_programs' = saved_programs
          /\ store_last'.call = "delete_program" =>
                /\ store_last'.ret <=> saved_programs[n] # None
                /\ saved_programs'[n] = None
                /\ OthersKept(saved_programs, saved_programs', n)
                /\ saved_positions' = saved_positions]_vars

\* p was saved twice with different angles and q once; p has been deleted and
\* a second delete of p has returned False
C38_Witness ==
    /\ store_last = [call |-> "delete_position", name |-> "p", ret |-> FALSE]
    /\ saved_positions["p"] = None
    /\ saved_positions["q"] # None /\ saved_positions["q"].angles = <<2>>
    /\ saved_programs["p"] # None

====
